---- MODULE Spec2Model ----
(***************************************************************************)
(* Model of models/matcher.py: HungarianMatcher.__init__, its forward      *)
(* method and build_matcher.                                               *)
(*                                                                         *)
(* Tensors are functions over 0 .. n-1 (the source's 0-based indexing).    *)
(* Real numbers are fixed point, in thousandths.  A geometric descriptor   *)
(* is the index s of an axis-parallel square of side 0.2 whose centre is   *)
(* at x = 0.3 + 0.1 * s; a polygon and a box with the same index describe  *)
(* the same square.                                                        *)
(***************************************************************************)
EXTENDS Integers, Sequences, FiniteSets, TLC

VARIABLES matcher, outputs, targets, result, calls, first

vars == <<matcher, outputs, targets, result, calls, first>>

\* ------------------------------------------------------------------ bounds
MaxB == 2
MaxQ == 2
MaxN == 2
MaxShape == 1
NumClasses == 2
MaxCalls == 3
MaxWeight == 1

\* ------------------------------------------------------------ basic tensors
\* Op applied to the value of v: a local variable, evaluated once
With(v, Op(_)) == CHOOSE r \in {Op(x) : x \in {v}} : TRUE

Len0(a) == Cardinality(DOMAIN a)

Arange(n) == [k \in 0 .. n - 1 |-> k]

Min(a, b) == IF a <= b THEN a ELSE b

Abs(x) == IF x < 0 THEN -x ELSE x

RECURSIVE SumTo(_, _)
SumTo(a, n) == IF n = 0 THEN 0 ELSE a[n - 1] + SumTo(a, n - 1)

\* the 0-based tensor as a 1-based sequence (torch.as_tensor of an index array)
AsTensor(a) == [k \in 1 .. Len0(a) |-> a[k - 1]]

\* torch.cat of a list of 1-d tensors: parts[0] ++ parts[1] ++ ...
RECURSIVE CatUpTo(_, _)
CatUpTo(parts, n) ==
    IF n = 0 THEN <<>>
    ELSE With(CatUpTo(parts, n - 1), LAMBDA head :
         With(Len0(head), LAMBDA h :
         With(parts[n - 1], LAMBDA last :
            [k \in 0 .. h + Len0(last) - 1 |->
                IF k < h THEN head[k] ELSE last[k - h]])))

Cat(parts) == CatUpTo(parts, Len0(parts))

\* tensor.flatten(0, 1) of a [bs, nq, ...] tensor
Flatten01(t, bs, nq) == [r \in 0 .. bs * nq - 1 |-> t[r \div nq][r % nq]]

\* ------------------------------------------------------------- value domains
Classes == 0 .. NumClasses - 1
Shapes == 0 .. MaxShape

\* logit rows confident of exactly one class (tenths of a logit)
LogitRows == {[c \in Classes |-> IF c = k THEN 22 ELSE -22] : k \in Classes}

\* ---------------------------------------------------------------- the costs
\* sigmoid, logits in tenths to probabilities in tenths
Sigmoid(x) == IF x <= -22 THEN 1 ELSE IF x >= 22 THEN 9 ELSE 5

\* -log(p + 1e-8) in thousandths, p in tenths
NegLog(p) ==
    CASE p = 1 -> 2303 [] p = 2 -> 1609 [] p = 3 -> 1204 [] p = 4 -> 916
      [] p = 5 -> 693 [] p = 6 -> 511 [] p = 7 -> 357 [] p = 8 -> 223
      [] p = 9 -> 105

\* (1 - alpha) * (out_prob ** gamma) * (-(1 - out_prob + 1e-8).log())
NegCostClass(p) == (3 * (p * p) * NegLog(10 - p)) \div 400

\* alpha * ((1 - out_prob) ** gamma) * (-(out_prob + 1e-8).log())
PosCostClass(p) == (1 * ((10 - p) * (10 - p)) * NegLog(p)) \div 400

\* matched_l1_loss(...)[0] for one pair of polygons: the sum of the absolute
\* coordinate differences (4 x-coordinates, each 0.1 apart per index step)
PolyL1(a, b) == 4 * 100 * Abs(a - b)

\* IoU of two oriented boxes <<shape, theta>> (thousandths); lengths in 0.1
BoxInter(a, b) ==
    LET d == Abs(a[1] - b[1]) IN IF d >= 2 THEN 0 ELSE (2 - d) * 2

BoxUnion(a, b) == 4 + 4 - BoxInter(a, b)

BoxIoU(a, b) == (1000 * BoxInter(a, b)) \div BoxUnion(a, b)

\* cal_giou for one pair: 1 - GIoU, GIoU = IoU - (enclosing - union)/enclosing
GiouCost(a, b) ==
    LET enc == (2 + Abs(a[1] - b[1])) * 2
    IN 1000 - (BoxIoU(a, b) - (1000 * (enc - BoxUnion(a, b))) \div enc)

\* ------------------------------------------- scipy.optimize.linear_sum_assignment
\* (the shortest augmenting path solver of rectangular_lsap)
Infinity == 1000000000

\* the for loop over remaining[0 .. num_remaining-1] of augmenting_path
RECURSIVE ScanRemaining(_, _, _, _, _, _, _, _, _, _)
ScanRemaining(cost, u, v, row4col, i, minVal, remaining, num_remaining, it, s0) ==
    With(s0, LAMBDA s :
        IF it >= num_remaining THEN s
        ELSE With(remaining[it], LAMBDA j :
             With(minVal + cost[i][j] - u[i] - v[j], LAMBDA r :
             With(IF r < s.shortestPathCosts[j]
                  THEN [s EXCEPT !.path[j] = i, !.shortestPathCosts[j] = r]
                  ELSE s, LAMBDA s1 :
                ScanRemaining(cost, u, v, row4col, i, minVal, remaining,
                    num_remaining, it + 1,
                    IF \/ s1.shortestPathCosts[j] < s1.lowest
                       \/ (s1.shortestPathCosts[j] = s1.lowest /\ row4col[j] = -1)
                    THEN [s1 EXCEPT !.lowest = s1.shortestPathCosts[j], !.index = it]
                    ELSE s1)))))

\* the while (sink == -1) loop of augmenting_path
RECURSIVE FindSink(_, _, _, _, _)
FindSink(cost, u, v, row4col, a0) ==
    With(a0, LAMBDA a :
        IF a.sink # -1 \/ a.infeasible THEN a
        ELSE With(ScanRemaining(cost, u, v, row4col, a.i, a.minVal,
                      a.remaining, a.num_remaining, 0,
                      [path |-> a.path,
                       shortestPathCosts |-> a.shortestPathCosts,
                       lowest |-> Infinity, index |-> -1]), LAMBDA s :
             IF s.lowest = Infinity
             THEN [a EXCEPT !.infeasible = TRUE, !.SR[a.i] = TRUE]
             ELSE With(a.remaining[s.index], LAMBDA j :
                  FindSink(cost, u, v, row4col,
                      [i |-> IF row4col[j] = -1 THEN a.i ELSE row4col[j],
                       minVal |-> s.lowest,
                       remaining |-> [a.remaining EXCEPT
                                        ![s.index] = a.remaining[a.num_remaining - 1]],
                       num_remaining |-> a.num_remaining - 1,
                       SR |-> [a.SR EXCEPT ![a.i] = TRUE],
                       SC |-> [a.SC EXCEPT ![j] = TRUE],
                       shortestPathCosts |-> s.shortestPathCosts,
                       path |-> s.path,
                       sink |-> IF row4col[j] = -1 THEN j ELSE -1,
                       infeasible |-> FALSE]))))

AugmentingPath(nr, nc, cost, u, v, path, row4col, i) ==
    FindSink(cost, u, v, row4col,
        [i |-> i, minVal |-> 0,
         remaining |-> [it \in 0 .. nc - 1 |-> nc - it - 1],
         num_remaining |-> nc,
         SR |-> [k \in 0 .. nr - 1 |-> FALSE],
         SC |-> [k \in 0 .. nc - 1 |-> FALSE],
         shortestPathCosts |-> [k \in 0 .. nc - 1 |-> Infinity],
         path |-> path, sink |-> -1, infeasible |-> FALSE])

\* "augment previous solution": walk the path back from the sink
RECURSIVE Augment(_, _, _, _)
Augment(path, g0, j0, curRow) ==
    With(g0, LAMBDA g : With(j0, LAMBDA j : With(path[j], LAMBDA i :
        IF i = curRow
        THEN [row4col |-> [g.row4col EXCEPT ![j] = i],
              col4row |-> [g.col4row EXCEPT ![i] = j]]
        ELSE Augment(path,
                 [row4col |-> [g.row4col EXCEPT ![j] = i],
                  col4row |-> [g.col4row EXCEPT ![i] = j]],
                 g.col4row[i], curRow))))

\* the for (curRow ...) loop of solve, nr <= nc
RECURSIVE SolveRows(_, _, _, _, _)
SolveRows(nr, nc, cost, curRow, t0) ==
    With(t0, LAMBDA t :
        IF curRow >= nr \/ t.infeasible THEN t
        ELSE With(AugmentingPath(nr, nc, cost, t.u, t.v, t.path,
                                 t.row4col, curRow), LAMBDA a :
             IF a.infeasible THEN [t EXCEPT !.infeasible = TRUE]
             ELSE With(Augment(a.path,
                           [row4col |-> t.row4col, col4row |-> t.col4row],
                           a.sink, curRow), LAMBDA g :
                  SolveRows(nr, nc, cost, curRow + 1,
                      [u |-> [i \in 0 .. nr - 1 |->
                                IF i = curRow THEN t.u[i] + a.minVal
                                ELSE IF a.SR[i]
                                     THEN t.u[i] + a.minVal
                                          - a.shortestPathCosts[t.col4row[i]]
                                     ELSE t.u[i]],
                       v |-> [j \in 0 .. nc - 1 |->
                                IF a.SC[j]
                                THEN t.v[j] - (a.minVal - a.shortestPathCosts[j])
                                ELSE t.v[j]],
                       path |-> a.path,
                       col4row |-> g.col4row, row4col |-> g.row4col,
                       infeasible |-> FALSE]))))

\* argsort of an array of distinct integers
Argsort(a0) ==
    With(a0, LAMBDA a :
        [k \in DOMAIN a |->
            CHOOSE x \in DOMAIN a : Cardinality({y \in DOMAIN a : a[y] < a[x]}) = k])

\* a solver that lets each row in turn take its cheapest free column
RECURSIVE GreedyRows(_, _, _, _, _)
GreedyRows(nr, nc, cost, r, g) ==
    IF r >= nr \/ Len0(g.a) >= nc THEN g
    ELSE LET free == {j \in 0 .. nc - 1 : j \notin {g.b[k] : k \in DOMAIN g.b}}
             j == CHOOSE x \in free : \A y \in free :
                     cost[r][x] < cost[r][y] \/ (cost[r][x] = cost[r][y] /\ x <= y)
             n == Len0(g.a)
         IN GreedyRows(nr, nc, cost, r + 1,
                [err |-> FALSE,
                 a |-> [k \in 0 .. n |-> IF k < n THEN g.a[k] ELSE r],
                 b |-> [k \in 0 .. n |-> IF k < n THEN g.b[k] ELSE j]])

SolveGreedy(nr, nc, cost) ==
    GreedyRows(nr, nc, cost, 0, [err |-> FALSE, a |-> <<>>, b |-> <<>>])

\* solve: row indices a, column indices b; a tall matrix is transposed first
SolveWide(n1, n2, cost1, transpose) ==
    With(SolveRows(n1, n2, cost1, 0,
             [u |-> [i \in 0 .. n1 - 1 |-> 0],
              v |-> [j \in 0 .. n2 - 1 |-> 0],
              path |-> [j \in 0 .. n2 - 1 |-> -1],
              col4row |-> [i \in 0 .. n1 - 1 |-> -1],
              row4col |-> [j \in 0 .. n2 - 1 |-> -1],
              infeasible |-> FALSE]), LAMBDA t :
        IF t.infeasible THEN [err |-> TRUE, a |-> <<>>, b |-> <<>>]
        ELSE IF transpose
             THEN With(Argsort(t.col4row), LAMBDA order :
                      [err |-> FALSE,
                       a |-> [k \in 0 .. n1 - 1 |-> t.col4row[order[k]]],
                       b |-> [k \in 0 .. n1 - 1 |-> order[k]]])
             ELSE [err |-> FALSE, a |-> Arange(n1), b |-> t.col4row])

Solve(nr, nc, cost) ==
    IF nr = 0 \/ nc = 0 THEN [err |-> FALSE, a |-> <<>>, b |-> <<>>]
    ELSE IF nc < nr
         THEN With([i \in 0 .. nc - 1 |-> [j \in 0 .. nr - 1 |-> cost[j][i]]],
                   LAMBDA cost1 : SolveWide(nc, nr, cost1, TRUE))
         ELSE SolveWide(nr, nc, cost, FALSE)

\* an assignment that rejects a cost matrix without entries
LinearSumAssignmentNonEmpty(cost_matrix) ==
    LET nr == Len0(cost_matrix)
        nc == IF nr = 0 THEN 0 ELSE Len0(cost_matrix[0])
    IN IF nr = 0 \/ nc = 0 THEN [err |-> TRUE, a |-> <<>>, b |-> <<>>]
       ELSE Solve(nr, nc, cost_matrix)

\* the shape of the 2-d cost matrix, then solve
linear_sum_assignment(cost_matrix) ==
    LET nr == Len0(cost_matrix)
        nc == IF nr = 0 THEN 0 ELSE Len0(cost_matrix[0])
    IN Solve(nr, nc, cost_matrix)

\* ------------------------------------------------------ HungarianMatcher.forward
\* out_prob = outputs["pred_logits"].flatten(0, 1).sigmoid()
OutProb(outs, bs, num_queries) ==
    LET flat == Flatten01(outs.pred_logits, bs, num_queries)
    IN [r \in DOMAIN flat |-> [c \in DOMAIN flat[r] |-> Sigmoid(flat[r][c])]]

\* cost_class = pos_cost_class[:, tgt_ids] - neg_cost_class[:, tgt_ids]
CostClass(out_prob, tgt_ids) ==
    [r \in DOMAIN out_prob |->
        [c \in DOMAIN tgt_ids |->
            PosCostClass(out_prob[r][tgt_ids[c]])
            - NegCostClass(out_prob[r][tgt_ids[c]])]]

\* matched_l1_loss(out_polys_tmp, tgt_polys_tmp)[0]: the operands are
\* [rows, num_gts, 8] and [rows, len(tgt_polys), 8]
MatchedL1Loss(out_polys, tgt_polys, num_gts) ==
    IF Len0(tgt_polys) # num_gts THEN [err |-> TRUE, val |-> <<>>]
    ELSE [err |-> FALSE,
          val |-> [r \in DOMAIN out_polys |->
                     [c \in 0 .. num_gts - 1 |-> PolyL1(out_polys[r], tgt_polys[c])]]]

\* cal_giou(out_oboxes_tmp, tgt_oboxes_tmp): the operands are
\* [rows, num_gts, 5] and [rows, len(tgt_oboxes), 5]
CalGiou(out_oboxes, tgt_oboxes, num_gts) ==
    IF Len0(tgt_oboxes) # num_gts THEN [err |-> TRUE, val |-> <<>>]
    ELSE [err |-> FALSE,
          val |-> [r \in DOMAIN out_oboxes |->
                     [c \in 0 .. num_gts - 1 |-> GiouCost(out_oboxes[r], tgt_oboxes[c])]]]

\* a sum that forgets the weight of the classification cost
FinalCostUnweightedClass(self, cost_bbox, cost_class, cost_giou) ==
    [r \in DOMAIN cost_class |->
        [c \in DOMAIN cost_class[r] |->
            self.cost_bbox * cost_bbox[r][c]
            + cost_class[r][c]
            + self.cost_giou * cost_giou[r][c]]]

\* C = self.cost_bbox * cost_bbox + self.cost_class * cost_class
\*     + self.cost_giou * cost_giou
FinalCost(self, cost_bbox, cost_class, cost_giou) ==
    [r \in DOMAIN cost_class |->
        [c \in DOMAIN cost_class[r] |->
            self.cost_bbox * cost_bbox[r][c]
            + self.cost_class * cost_class[r][c]
            + self.cost_giou * cost_giou[r][c]]]

\* C.view(bs, num_queries, -1)
View(C, bs, num_queries) ==
    [b \in 0 .. bs - 1 |-> [q \in 0 .. num_queries - 1 |-> C[b * num_queries + q]]]

\* a split that starts every chunk at column 0
SplitChunkNoOffset(Cv, sizes, i) ==
    [b \in DOMAIN Cv |->
        [q \in DOMAIN Cv[b] |-> [c \in 0 .. sizes[i] - 1 |-> Cv[b][q][c]]]]

\* the i-th chunk of C.split(sizes, -1): columns offset .. offset + sizes[i] - 1
\* of every [b, q] row, offset = sizes[0] + ... + sizes[i-1]
SplitChunk(Cv, sizes, i) ==
    LET offset == SumTo(sizes, i)
    IN [b \in DOMAIN Cv |->
          [q \in DOMAIN Cv[b] |->
              [c \in 0 .. sizes[i] - 1 |-> Cv[b][q][offset + c]]]]

\* the rows of image i without the split: all the columns
BlockUnsplit(Cv, sizes, i) == Cv[i]

\* the chunk without the [i]: the rows of every image
BlockAllRows(Cv, sizes, i) ==
    LET chunk == SplitChunk(Cv, sizes, i)
        nq == Len0(Cv[0])
    IN [r \in 0 .. Len0(Cv) * nq - 1 |-> chunk[r \div nq][r % nq]]

\* c[i] for i, c in enumerate(C.split(sizes, -1))
Block(Cv, sizes, i) == SplitChunk(Cv, sizes, i)[i]

\* (torch.as_tensor(i), torch.as_tensor(j)) for i, j in indices
Package(ind) == <<AsTensor(ind.a), AsTensor(ind.b)>>

Raised == [err |-> TRUE, val |-> <<>>]

\* the tensors of lines 57-68, with num_gts and sizes
Tensors(outs, tgts) ==
    With(Len0(outs.pred_logits), LAMBDA bs :
    With(Len0(outs.pred_logits[0]), LAMBDA num_queries :
    With(Cat([k \in DOMAIN tgts |-> tgts[k].labels]), LAMBDA tgt_ids :
    With(Cat([k \in DOMAIN tgts |-> tgts[k].boxes]), LAMBDA tgt_boxes :
    With(Cat([k \in DOMAIN tgts |-> tgts[k].theta]), LAMBDA tgt_theta :
        [bs |-> bs,
         num_queries |-> num_queries,
         out_prob |-> OutProb(outs, bs, num_queries),
         out_oboxes |-> Flatten01(outs.pred_boxes, bs, num_queries),
         out_polys |-> Flatten01(outs.pred_polys, bs, num_queries),
         tgt_ids |-> tgt_ids,
         tgt_polys |-> Cat([k \in DOMAIN tgts |-> tgts[k].polys]),
         tgt_boxes |-> tgt_boxes,
         tgt_theta |-> tgt_theta,
         num_gts |-> Len0(tgt_ids),
         sizes |-> [k \in DOMAIN tgts |-> Len0(tgts[k].boxes)]])))))

\* lines 93-99: the cost matrix, its blocks, the assignments and the result
Assign(self, x, cost_class, cost_bbox, cost_giou) ==
    With(View(FinalCost(self, cost_bbox, cost_class, cost_giou),
              x.bs, x.num_queries), LAMBDA C :
    With([i \in DOMAIN x.sizes |-> linear_sum_assignment(Block(C, x.sizes, i))],
         LAMBDA indices :
        IF \E i \in DOMAIN indices : indices[i].err THEN Raised
        ELSE [err |-> FALSE, val |-> [i \in DOMAIN indices |-> Package(indices[i])]]))

Forward(self, outs, tgts) ==
    \* torch.cat of an empty list
    IF Len0(tgts) = 0 THEN Raised
    ELSE With(Tensors(outs, tgts), LAMBDA x :
        \* torch.cat([tgt_boxes, tgt_theta], dim=-1) of unequal row counts
        IF Len0(x.tgt_boxes) # Len0(x.tgt_theta) THEN Raised
        ELSE With([k \in DOMAIN x.tgt_boxes |-> <<x.tgt_boxes[k], x.tgt_theta[k]>>],
                  LAMBDA tgt_oboxes :
             With(MatchedL1Loss(x.out_polys, x.tgt_polys, x.num_gts), LAMBDA cost_bbox :
             With(CalGiou(x.out_oboxes, tgt_oboxes, x.num_gts), LAMBDA cost_giou :
                IF cost_bbox.err \/ cost_giou.err THEN Raised
                \* split sizes must sum to the number of columns
                ELSE IF SumTo(x.sizes, Len0(x.sizes)) # x.num_gts THEN Raised
                \* c[i] with i >= bs
                ELSE IF Len0(tgts) > x.bs THEN Raised
                ELSE Assign(self, x, CostClass(x.out_prob, x.tgt_ids),
                            cost_bbox.val, cost_giou.val)))))

\* ------------------------------------------------- HungarianMatcher.__init__
DefaultCost == 1

\* an argument of a call: given with value v, or left to the default
Arg(v) == [has |-> TRUE, v |-> v]
Absent == [has |-> FALSE, v |-> 0]
WeightArgs == {Absent} \cup {Arg(w) : w \in 0 .. MaxWeight}

ArgOr(a, default) == IF a.has THEN a.v ELSE default

NoMatcher ==
    [state |-> "none", cost_class |-> 0, cost_bbox |-> 0, cost_giou |-> 0,
     given |-> <<Absent, Absent, Absent>>]

\* an __init__ whose assert wants every weight non-zero
HungarianMatcherInitAnd(a_class, a_bbox, a_giou) ==
    LET cost_class == ArgOr(a_class, DefaultCost)
        cost_bbox == ArgOr(a_bbox, DefaultCost)
        cost_giou == ArgOr(a_giou, DefaultCost)
    IN [state |-> IF cost_class # 0 /\ cost_bbox # 0 /\ cost_giou # 0
                  THEN "ok" ELSE "failed",
        cost_class |-> cost_class, cost_bbox |-> cost_bbox,
        cost_giou |-> cost_giou,
        given |-> <<a_class, a_bbox, a_giou>>]

\* the object __init__ leaves: the assert runs after the three assignments
HungarianMatcherInit(a_class, a_bbox, a_giou) ==
    LET cost_class == ArgOr(a_class, DefaultCost)
        cost_bbox == ArgOr(a_bbox, DefaultCost)
        cost_giou == ArgOr(a_giou, DefaultCost)
    IN [state |-> IF cost_class # 0 \/ cost_bbox # 0 \/ cost_giou # 0
                  THEN "ok" ELSE "failed",
        cost_class |-> cost_class, cost_bbox |-> cost_bbox,
        cost_giou |-> cost_giou,
        given |-> <<a_class, a_bbox, a_giou>>]

\* a forward that stores its classification cost over the weight
SelfAfterForwardAssigns(self) == [self EXCEPT !.cost_class = self.cost_class + 1]

\* forward assigns no attribute of self
SelfAfterForward(self) == self

\* ---------------------------------------------------------------- call inputs
\* predictions of kind <<logit row, shape>>, targets of kind <<label, shape>>
OutputsOf(B, Q, f) ==
    [pred_logits |-> [b \in 0 .. B - 1 |-> [q \in 0 .. Q - 1 |-> f[b][q][1]]],
     pred_boxes |-> [b \in 0 .. B - 1 |-> [q \in 0 .. Q - 1 |-> <<f[b][q][2], 0>>]],
     pred_polys |-> [b \in 0 .. B - 1 |-> [q \in 0 .. Q - 1 |-> f[b][q][2]]]]

TargetOf(n, g) ==
    [labels |-> [k \in 0 .. n - 1 |-> g[k][1]],
     polys |-> [k \in 0 .. n - 1 |-> g[k][2]],
     boxes |-> [k \in 0 .. n - 1 |-> g[k][2]],
     theta |-> [k \in 0 .. n - 1 |-> 0]]

PredKinds == LogitRows \X Shapes

\* the targets are objects of class k lying at position k
TgtKinds == {<<k, k>> : k \in Classes \cap Shapes}

ImageTargets ==
    UNION {{TargetOf(n, g) : g \in [0 .. n - 1 -> TgtKinds]} : n \in 0 .. MaxN}

\* a fixed pattern of predictions and targets, one input per (B, counts)
LogitRowOf(k) == [c \in Classes |-> IF c = k % NumClasses THEN 22 ELSE -22]

PatternInput(B, ns) ==
    [outputs |-> OutputsOf(B, MaxQ,
                    [b \in 0 .. B - 1 |-> [q \in 0 .. MaxQ - 1 |->
                        <<LogitRowOf(b + q), q % (MaxShape + 1)>>]]),
     targets |-> [i \in 0 .. B - 1 |->
                    TargetOf(ns[i], [k \in 0 .. ns[i] - 1 |->
                        <<k % NumClasses, (i + k + 1) % (MaxShape + 1)>>])]]

PatternInputs ==
    UNION {{PatternInput(B, ns) : ns \in [0 .. B - 1 -> {0, MaxN}]} : B \in 1 .. MaxB}

FullInputs == {PatternInput(B, [i \in 0 .. B - 1 |-> MaxN]) : B \in 1 .. MaxB}

Fields == {"labels", "polys", "boxes", "theta"}

DropLast(a) == [k \in 0 .. Len0(a) - 2 |-> a[k]]
Append0(a, x) == [k \in 0 .. Len0(a) |-> IF k < Len0(a) THEN a[k] ELSE x]
Prepend0(x, a) == [k \in 0 .. Len0(a) |-> IF k = 0 THEN x ELSE a[k - 1]]

\* the targets list one entry short, and one entry long
ShortList(in) == [in EXCEPT !.targets = DropLast(in.targets)]
LongList(in) ==
    [in EXCEPT !.targets = Append0(in.targets, in.targets[Len0(in.targets) - 1])]

\* image i lacks the last entry of field fld
FieldShort(in, i, fld) ==
    [in EXCEPT !.targets[i][fld] = DropLast(in.targets[i][fld])]

\* the last entry of field fld of image 0 is given to image 1 instead: the
\* per-image counts of the fields differ, their batch-wide totals agree
FieldShifted(in, fld) ==
    LET a == in.targets[0][fld]
    IN [in EXCEPT !.targets[0][fld] = DropLast(a),
                  !.targets[1][fld] = Prepend0(a[Len0(a) - 1], in.targets[1][fld])]

MalformedInputs ==
    {ShortList(in) : in \in FullInputs}
    \cup {LongList(in) : in \in FullInputs}
    \cup {FieldShort(in, Len0(in.targets) - 1, fld) :
            in \in {x \in FullInputs : Len0(x.targets) = MaxB}, fld \in Fields}
    \cup {FieldShifted(in, fld) :
            in \in {x \in FullInputs : Len0(x.targets) >= 2}, fld \in Fields}

CallInputs == PatternInputs \cup MalformedInputs

\* ------------------------------------------------------------- the state machine
NoOutputs == [pred_logits |-> <<>>, pred_boxes |-> <<>>, pred_polys |-> <<>>]
NoResult == [err |-> FALSE, val |-> <<>>]
NoFirst ==
    [set |-> FALSE, outputs |-> NoOutputs, targets |-> <<>>, result |-> NoResult,
     between |-> FALSE]

Init ==
    /\ matcher = NoMatcher
    /\ outputs = NoOutputs
    /\ targets = <<>>
    /\ result = NoResult
    /\ calls = 0
    /\ first = NoFirst

\* HungarianMatcher(cost_class=..., cost_bbox=..., cost_giou=...)
Construct(a_class, a_bbox, a_giou) ==
    /\ matcher.state = "none"
    /\ matcher' = HungarianMatcherInit(a_class, a_bbox, a_giou)
    /\ UNCHANGED <<outputs, targets, result, calls, first>>

\* build_matcher(args)
BuildMatcher(args) ==
    /\ matcher.state = "none"
    /\ matcher' = HungarianMatcherInit(Arg(args.set_cost_class),
                                       Arg(args.set_cost_bbox),
                                       Arg(args.set_cost_giou))
    /\ UNCHANGED <<outputs, targets, result, calls, first>>

BuildArgs ==
    [set_cost_class : 0 .. MaxWeight, set_cost_bbox : 0 .. MaxWeight,
     set_cost_giou : 0 .. MaxWeight]

\* matcher.forward(outs, tgts)
ForwardCall(outs, tgts) ==
    /\ matcher.state = "ok"
    /\ calls < MaxCalls
    /\ outputs' = outs
    /\ targets' = tgts
    /\ result' = Forward(matcher, outs, tgts)
    /\ matcher' = SelfAfterForward(matcher)
    /\ calls' = calls + 1
    \* history: the first call, and whether a call with other inputs followed it
    /\ first' = IF first.set
                THEN [first EXCEPT !.between =
                        first.between \/ outs # first.outputs \/ tgts # first.targets]
                ELSE [set |-> TRUE, outputs |-> outs, targets |-> tgts,
                      result |-> result', between |-> FALSE]

Next ==
    \/ \E a_class \in WeightArgs, a_bbox \in WeightArgs, a_giou \in WeightArgs :
          Construct(a_class, a_bbox, a_giou)
    \/ \E args \in BuildArgs : BuildMatcher(args)
    \/ \E in \in CallInputs : ForwardCall(in.outputs, in.targets)

Spec == Init /\ [][Next]_vars

\* forward as a pure function: a constructed matcher and one well-formed input,
\* drawn from the bounded sets, and the one call that applies forward to it
InitFn ==
    /\ \E a_class \in WeightArgs, a_bbox \in WeightArgs, a_giou \in WeightArgs :
          /\ a_class.has /\ a_bbox.has /\ a_giou.has
          /\ matcher = HungarianMatcherInit(a_class, a_bbox, a_giou)
    /\ matcher.state = "ok"
    /\ \E B \in 1 .. MaxB, Q \in 1 .. MaxQ :
          /\ \E f \in [0 .. B - 1 -> [0 .. Q - 1 -> PredKinds]] :
                outputs = OutputsOf(B, Q, f)
          /\ \E t \in [0 .. B - 1 -> ImageTargets] : targets = t
    /\ result = NoResult
    /\ calls = 0
    /\ first = NoFirst

ForwardPending == calls = 0 /\ ForwardCall(outputs, targets)

NextFn == ForwardPending

SpecFn == InitFn /\ [][NextFn]_vars

\* ---------------------------------------------------------------------- shape
TypeOK ==
    /\ matcher.state \in {"none", "ok", "failed"}
    /\ calls \in 0 .. MaxCalls
    /\ result.err \in BOOLEAN

\* ================================================================== the claims
Called == calls >= 1

BatchSize == Len0(outputs.pred_logits)
NumQueries == Len0(outputs.pred_logits[0])
NumTargets(i) == Len0(targets[i].boxes)

\* the inputs of the last call are consistent: one target entry per image, and
\* in every image as many labels as polys as boxes as theta
WellFormed ==
    /\ Len0(targets) = BatchSize
    /\ \A i \in DOMAIN targets :
          /\ Len0(targets[i].labels) = Len0(targets[i].boxes)
          /\ Len0(targets[i].polys) = Len0(targets[i].boxes)
          /\ Len0(targets[i].theta) = Len0(targets[i].boxes)

Range(s) == {s[k] : k \in DOMAIN s}

Distinct(s) == \A k1, k2 \in DOMAIN s : k1 # k2 => s[k1] # s[k2]

\* the weighted cost of prediction q and target k of image i, from the inputs
PairCost(i, q, k) ==
    LET p == Sigmoid(outputs.pred_logits[i][q][targets[i].labels[k]])
    IN matcher.cost_class * (PosCostClass(p) - NegCostClass(p))
       + matcher.cost_bbox * PolyL1(outputs.pred_polys[i][q], targets[i].polys[k])
       + matcher.cost_giou * GiouCost(outputs.pred_boxes[i][q],
                                      <<targets[i].boxes[k], targets[i].theta[k]>>)

RECURSIVE PairsCost(_, _, _, _)
PairsCost(i, ps, ts, n) ==
    IF n = 0 THEN 0
    ELSE PairCost(i, ps[n], ts[n]) + PairsCost(i, ps, ts, n - 1)

\* every one-to-one matching of size min(Q, N_i) of image i, as a pair of
\* aligned sequences <<predictions, targets>>
Matchings(i) ==
    LET m == Min(NumQueries, NumTargets(i))
    IN {pt \in [1 .. m -> 0 .. NumQueries - 1] \X [1 .. m -> 0 .. NumTargets(i) - 1] :
            Distinct(pt[1]) /\ Distinct(pt[2])}

\* C1: a call on consistent inputs returns one entry per image, and entry i
\* holds exactly min(Q, N_i) pairs: every target is matched when N_i <= Q and
\* every prediction is matched when N_i >= Q
C1_MatchCounts ==
    (Called /\ WellFormed) =>
        /\ ~result.err
        /\ DOMAIN result.val = 0 .. BatchSize - 1
        /\ \A i \in 0 .. BatchSize - 1 :
              LET e == result.val[i]
                  m == Min(NumQueries, NumTargets(i))
              IN /\ Len(e[1]) = m
                 /\ Len(e[2]) = m
                 /\ NumTargets(i) <= NumQueries => Range(e[2]) = 0 .. NumTargets(i) - 1
                 /\ NumTargets(i) >= NumQueries => Range(e[1]) = 0 .. NumQueries - 1

C1_Witness ==
    /\ Called /\ WellFormed /\ ~result.err
    /\ BatchSize = 2
    /\ NumTargets(0) > NumQueries
    /\ NumTargets(1) < NumQueries
    /\ Len(result.val[0][1]) = NumQueries
    /\ Len(result.val[1][1]) = NumTargets(1)

\* C2 (as claimed): every entry of the result is three aligned sequences,
\* prediction indices, target indices and the IoU of each matched pair
C2_ThreeAlignedSequences ==
    (Called /\ WellFormed /\ ~result.err) =>
        \A i \in DOMAIN result.val :
            /\ Len(result.val[i]) = 3
            /\ Len(result.val[i][1]) = Len(result.val[i][2])
            /\ Len(result.val[i][2]) = Len(result.val[i][3])

\* C3: the prediction indices of an image are pairwise distinct and lie in
\* 0 .. Q-1, its target indices are pairwise distinct and lie in 0 .. N_i-1
C3_LocalDistinctIndices ==
    (Called /\ WellFormed) =>
        /\ ~result.err
        /\ \A i \in DOMAIN result.val :
              /\ Distinct(result.val[i][1])
              /\ Distinct(result.val[i][2])
              /\ Range(result.val[i][1]) \subseteq 0 .. NumQueries - 1
              /\ Range(result.val[i][2]) \subseteq 0 .. NumTargets(i) - 1

C3_Witness ==
    /\ Called /\ WellFormed /\ ~result.err
    /\ BatchSize = 2
    /\ NumQueries = 2
    /\ NumTargets(0) = 1
    /\ NumTargets(1) = 2
    /\ result.val[1][2] = <<1, 0>>

\* C4: the pairs returned for image i cost no more, summed over the weighted
\* pair costs, than any one-to-one matching of size min(Q, N_i) of that image
C4_MinimumCost ==
    (Called /\ WellFormed) =>
        /\ ~result.err
        /\ \A i \in DOMAIN result.val :
              LET e == result.val[i]
              IN \A pt \in Matchings(i) :
                    PairsCost(i, e[1], e[2], Len(e[1]))
                        <= PairsCost(i, pt[1], pt[2], Len(pt[1]))

\* a greedy choice (each prediction in turn takes its cheapest free target)
\* would cost more here
C4_Witness ==
    /\ Called /\ WellFormed /\ ~result.err
    /\ NumQueries = 2
    /\ NumTargets(0) = 2
    /\ PairCost(0, 0, 0) < PairCost(0, 0, 1)
    /\ PairCost(0, 0, 0) + PairCost(0, 1, 1) > PairCost(0, 0, 1) + PairCost(0, 1, 0)
    /\ result.val[0] = <<<<0, 1>>, <<1, 0>>>>

\* C5: an image without targets gets two empty index sequences and the call
\* raises nothing, whether or not the other images have targets
C5_NoTargets ==
    (Called /\ WellFormed) =>
        \A i \in DOMAIN targets :
            NumTargets(i) = 0 =>
                /\ ~result.err
                /\ result.val[i][1] = <<>>
                /\ result.val[i][2] = <<>>

C5_Witness ==
    /\ Called /\ WellFormed /\ ~result.err
    /\ BatchSize = 2
    /\ NumTargets(0) = 0
    /\ NumTargets(1) = 0
    /\ result.val[0] = <<<<>>, <<>>>>
    /\ result.val[1] = <<<<>>, <<>>>>

\* the weight a construction argument stands for (the default is 1)
GivenWeight(k) == IF matcher.given[k].has THEN matcher.given[k].v ELSE 1

\* C6: construction fails exactly when the three weights are all zero; else it
\* succeeds and stores the weights as given, each left-out weight being 1
C6_Construction ==
    matcher.state # "none" =>
        /\ matcher.state = "failed" <=>
              \A k \in 1 .. 3 : matcher.given[k].has /\ matcher.given[k].v = 0
        /\ matcher.state = "ok" =>
              /\ matcher.cost_class = GivenWeight(1)
              /\ matcher.cost_bbox = GivenWeight(2)
              /\ matcher.cost_giou = GivenWeight(3)

C6_Witness ==
    /\ matcher.state = "failed"
    /\ \A k \in 1 .. 3 : matcher.given[k].has /\ matcher.given[k].v = 0

\* the predictions and the targets of image i as a batch of one
ImageOutputs(i) ==
    [pred_logits |-> [b \in {0} |-> outputs.pred_logits[i]],
     pred_boxes |-> [b \in {0} |-> outputs.pred_boxes[i]],
     pred_polys |-> [b \in {0} |-> outputs.pred_polys[i]]]

ImageTargetsOf(i) == [b \in {0} |-> targets[i]]

\* C7: the entry returned for image i is the entry forward returns for a batch
\* that holds image i alone
C7_PerImageEquivalence ==
    (Called /\ WellFormed) =>
        /\ ~result.err
        /\ \A i \in 0 .. BatchSize - 1 :
              LET alone == Forward(matcher, ImageOutputs(i), ImageTargetsOf(i))
              IN ~alone.err /\ alone.val[0] = result.val[i]

C7_Witness ==
    /\ Called /\ WellFormed /\ ~result.err
    /\ BatchSize = 2
    /\ NumTargets(0) = 1
    /\ NumTargets(1) = 2
    /\ targets[0].labels[0] # targets[1].labels[0]
    /\ outputs.pred_logits[0] # outputs.pred_logits[1]
    /\ result.val[0][1] # result.val[1][1]

C9_InconsistentInputsRaise ==
    (Called /\ ~WellFormed) => result.err

\* inputs that carry no classification, regression or overlap signal
FlatLogits ==
    [outputs EXCEPT !.pred_logits =
        [b \in DOMAIN outputs.pred_logits |->
            [q \in DOMAIN outputs.pred_logits[b] |-> [c \in Classes |-> 22]]]]

FlatPolys ==
    [outputs EXCEPT !.pred_polys =
        [b \in DOMAIN outputs.pred_polys |->
            [q \in DOMAIN outputs.pred_polys[b] |-> 0]]]

FlatBoxes ==
    [outputs EXCEPT !.pred_boxes =
        [b \in DOMAIN outputs.pred_boxes |->
            [q \in DOMAIN outputs.pred_boxes[b] |-> <<0, 0>>]]]

FlatTargets(fld) ==
    [i \in DOMAIN targets |->
        [targets[i] EXCEPT ![fld] = [k \in DOMAIN targets[i][fld] |-> 0]]]

====
